---- MODULE Spec2Model ----
(***************************************************************************)
(* Session state machines of the procurement backend (backend/server.py):  *)
(*   - the KIBA results-stack session (get / patch / appendRun / close)    *)
(*     kept in kiba_session_store (no TTL), checked under Spec;            *)
(*   - the KPA one-flow intake session (intake / answers / summary /       *)
(*     recommendations) kept in kpa_session_store (30 minute TTL),         *)
(*     checked under SpecKpa.                                              *)
(* JSON objects (Python dicts) are functions with a string domain, JSON    *)
(* arrays are sequences, JSON null is None.                                *)
(***************************************************************************)
EXTENDS Integers, Sequences, FiniteSets, TLC

VARIABLES
    kiba_session_store,  \* key -> [value, ts]   (SessionStore(ttl_seconds=None))
    kpa_session_store,   \* key -> [value, ts]   (SessionStore(ttl_seconds=60*30))
    now,                 \* the wall clock, in seconds
    last,                \* the last request handled and the response it got
    everReturned,        \* history: questions any intake call has returned
    lifeReturned,        \* history: the same, since the record was last created
    lastSet,             \* history: store -> key -> payload and time of the last direct set
    inflight             \* caller -> the call it has read the session for but not yet written

vars == <<kiba_session_store, kpa_session_store, now, last, everReturned, lifeReturned,
          lastSet, inflight>>

-----------------------------------------------------------------------------
(* Bounds *)

\* mutating KIBA calls are enabled while the stored version is below this
MaxVersion == 4
\* the clock stops after this many ticks
MaxTicks == 2
\* the clock advances by this many seconds per tick
TickSeconds == 1000
\* regenerations are enabled while the recommendation version is below this
MaxRecVersion == 2
\* the clock of the store specification stops after this many half-TTL ticks
MaxStoreTicks == 4
\* racing patches are started while the version they read is below this
MaxRaceVersion == 3

(* Program constants *)

\* kpa_session_store = SessionStore(ttl_seconds=60*30)
KpaTtlSeconds == 1800

-----------------------------------------------------------------------------
(* Python values *)

None == "None"

EmptyDict == <<>>

\* d.get(k)
Get(d, k) == IF k \in DOMAIN d THEN d[k] ELSE None

\* {**d, **p}  and  d.update(p)
Merge(d, p) == [k \in DOMAIN d \cup DOMAIN p |-> IF k \in DOMAIN p THEN p[k] ELSE d[k]]

\* {k: v for k, v in d.items() if k != key}
Without(d, key) == [k \in DOMAIN d \ {key} |-> d[k]]

IsPrefix(s, t) == Len(s) <= Len(t) /\ SubSeq(t, 1, Len(s)) = s

-----------------------------------------------------------------------------
(* utils.store.SessionStore: a keyed store with an optional TTL and lazy   *)
(* expiry on read.                                                          *)

\* ttl_seconds: <<>> for None, <<n>> for n seconds
NoTtl == <<>>

\* the record of key has outlived the TTL
Expired(store, ttl, key) ==
    /\ key \in DOMAIN store
    /\ ttl # NoTtl
    /\ now - store[key].ts > ttl[1]

\* store.get(key) returns a payload: the key is present and has not expired.
\* Otherwise store.get(key) is None, which every caller tests with `not session`.
StoreHas(store, ttl, key) == key \in DOMAIN store /\ ~Expired(store, ttl, key)

\* store.get(key) where it returns a payload
StoreGet(store, key) == store[key].value

\* the store after store.get(key): an expired record is dropped
StoreAfterGet(store, ttl, key) ==
    IF Expired(store, ttl, key) THEN Without(store, key) ELSE store

\* the store after store.set(key, value): overwrite, stamped with the clock
StoreSet(store, key, value) ==
    Merge(store, [k \in {key} |-> [value |-> value, ts |-> now]])

\* the two stores of the server
StoreNames == {"kpa", "kiba"}

-----------------------------------------------------------------------------
(* KIBA sessions                                                            *)

KibaIds == {"k1"}
\* mutant: the KIBA store is given the TTL of the KPA store
KibaTtlFinite == <<KpaTtlSeconds>>

\* kiba_session_store = SessionStore(ttl_seconds=None)
KibaTtl == NoTtl

Run1 == [runId |-> "r1", vendorsSnapshot |-> [vendors |-> "A"]]
Run2 == [runId |-> "r2", vendorsSnapshot |-> [vendors |-> "B"]]

DefaultSteps ==
    [request |-> EmptyDict,
     vendorSearch |-> [runs |-> <<>>, activeRunId |-> None],
     evaluation |-> [shortlistVendorIds |-> <<>>, notesByVendorId |-> EmptyDict,
                     attachments |-> <<>>],
     selection |-> [selectedVendorId |-> None, rationale |-> None, terms |-> None,
                    totalAwardAmount |-> None]]

_default_kiba_session(session_id) ==
    [sessionId |-> session_id,
     status |-> "open",
     currentStep |-> "request",
     steps |-> DefaultSteps,
     audit |-> <<[at |-> now, by |-> "system", event |-> "session_init"]>>,
     version |-> 1]

\* the response of a handler
Response(code, content) == [code |-> code, content |-> content]

Call(op, sid, body, response) ==
    [op |-> op, sid |-> sid, body |-> body, code |-> response.code,
     content |-> response.content]

KpaUnchanged ==
    UNCHANGED <<kpa_session_store, now, everReturned, lifeReturned, lastSet, inflight>>

\* GET /api/kiba/sessions/{session_id}
kiba_get_session(session_id) ==
    LET found == StoreHas(kiba_session_store, KibaTtl, session_id)
        session == IF found THEN StoreGet(kiba_session_store, session_id)
                   ELSE _default_kiba_session(session_id)
    IN  /\ kiba_session_store' =
              IF found THEN kiba_session_store
              ELSE StoreSet(kiba_session_store, session_id, session)
        /\ last' = Call("get", session_id, EmptyDict, Response(200, session))
        /\ KpaUnchanged

\* Request bodies of PATCH.  The top-level values a body may carry: any of the
\* status, currentStep, steps and audit keys, and an optional expected version.
\* steps values are JSON objects and audit values JSON arrays.
StepsWith(runs, active, shortlist, selected) ==
    [request |-> EmptyDict,
     vendorSearch |-> [runs |-> runs, activeRunId |-> active],
     evaluation |-> [shortlistVendorIds |-> shortlist, notesByVendorId |-> EmptyDict,
                     attachments |-> <<>>],
     selection |-> [selectedVendorId |-> selected, rationale |-> None, terms |-> None,
                    totalAwardAmount |-> None]]

StepsReady == StepsWith(<<Run1>>, "r1", <<"v1">>, "v1")
StepsNoRuns == StepsWith(<<>>, None, <<"v1">>, "v1")
StepsNoShortlist == StepsWith(<<Run1>>, "r1", <<>>, "v1")
StepsNoSelection == StepsWith(<<Run1>>, "r1", <<"v1">>, None)
\* steps whose activeRunId names no run of runs
StepsStaleActive == StepsWith(<<Run1>>, "r9", <<"v1">>, "v1")
\* a steps object without the evaluation and selection sub-maps
StepsSearchOnly == [vendorSearch |-> [runs |-> <<>>, activeRunId |-> None]]
\* a steps object without any of the sub-maps the handlers index
StepsRequestOnly == [request |-> EmptyDict]

PatchParts ==
    { EmptyDict,
      [status |-> "open"],
      [status |-> "closed"],
      [steps |-> StepsReady],
      [steps |-> StepsNoRuns],
      [steps |-> StepsNoShortlist],
      [steps |-> StepsNoSelection],
      [steps |-> StepsStaleActive],
      [steps |-> StepsSearchOnly],
      [steps |-> StepsRequestOnly],
      [audit |-> <<>>],
      [currentStep |-> "selection", steps |-> StepsReady] }

\* the bodies that also carry an expected version
VersionedParts == { EmptyDict, [status |-> "closed"], [steps |-> StepsReady] }

PatchBodies ==
    PatchParts \cup
    { Merge(p, [version |-> v]) : p \in VersionedParts, v \in 1..MaxVersion }

\* mutant: only a version ahead of the server's is taken for a conflict
VersionConflictOnlyAhead(body, session) ==
    /\ "version" \in DOMAIN body
    /\ body.version > session.version

\* client_version is not None and client_version != session.get("version")
VersionConflict(body, session) ==
    /\ "version" \in DOMAIN body
    /\ body.version # session.version

\* mutant: the merge without the version increment
PatchAppliedNoBump(session, patch) ==
    LET updated == Merge(session, patch)
    IN  Merge(updated,
              [audit |-> Append(updated.audit,
                                [at |-> now, by |-> "user", event |-> "patch",
                                 payload |-> DOMAIN patch])])

\* mutant: a patched steps object is merged into the stored one, sub-map by sub-map
PatchAppliedDeep(session, patch) ==
    LET merged == IF "steps" \in DOMAIN patch
                  THEN Merge(patch, [steps |-> Merge(session.steps, patch.steps)])
                  ELSE patch
        updated == Merge(session, merged)
    IN  Merge(updated,
              [version |-> session.version + 1,
               audit |-> Append(updated.audit,
                                [at |-> now, by |-> "user", event |-> "patch",
                                 payload |-> DOMAIN patch])])

\* {**session, **patch} with the version bumped and one audit entry appended
PatchApplied(session, patch) ==
    LET updated == Merge(session, patch)
    IN  Merge(updated,
              [version |-> session.version + 1,
               audit |-> Append(updated.audit,
                                [at |-> now, by |-> "user", event |-> "patch",
                                 payload |-> DOMAIN patch])])

\* PATCH /api/kiba/sessions/{session_id}
kiba_patch_session(session_id, body) ==
    LET patch == Without(body, "version")
        found == StoreHas(kiba_session_store, KibaTtl, session_id)
        session == IF found THEN StoreGet(kiba_session_store, session_id)
                   ELSE _default_kiba_session(session_id)
        updated == PatchApplied(session, patch)
    IN  /\ IF VersionConflict(body, session)
           THEN /\ last' = Call("patch", session_id, body,
                                Response(409, [error |-> "version_conflict",
                                               serverVersion |-> session.version]))
                /\ UNCHANGED kiba_session_store
           ELSE /\ session.version < MaxVersion
                /\ kiba_session_store' = StoreSet(kiba_session_store, session_id, updated)
                /\ last' = Call("patch", session_id, body, Response(200, updated))
        /\ KpaUnchanged

\* JSON values of the "run" field of a POST .../runs body
JsonNull == [type |-> "null"]
JsonObject(d) == [type |-> "object", value |-> d]
JsonArray(a) == [type |-> "array", items |-> a]
JsonString(str) == [type |-> "string", chars |-> str]

\* bool(j)
Truthy(j) ==
    CASE j.type = "null" -> FALSE
      [] j.type = "object" -> DOMAIN j.value # {}
      [] j.type = "array" -> Len(j.items) > 0
      [] j.type = "string" -> j.chars # ""

RunBodies ==
    { EmptyDict,
      [run |-> JsonNull],
      [run |-> JsonObject(Run1)],
      [run |-> JsonObject(Run2)],
      [run |-> JsonObject(EmptyDict)],
      [run |-> JsonArray(<<>>)],
      [run |-> JsonArray(<<Run1>>)],
      [run |-> JsonString("r1")],
      [run |-> JsonObject(Run2), version |-> 1] }

\* body.get("run") or {}
RunOf(body) ==
    IF "run" \in DOMAIN body /\ Truthy(body.run) THEN body.run ELSE JsonObject(EmptyDict)

\* mutant: the new run is put in front of the earlier runs
RunPrepended(session, run) ==
    LET vs == session.steps.vendorSearch
        vs2 == Merge(vs, [runs |-> <<run>> \o vs.runs, activeRunId |-> Get(run, "runId")])
    IN  Merge(session,
              [steps |-> Merge(session.steps, [vendorSearch |-> vs2]),
               version |-> session.version + 1,
               audit |-> Append(session.audit,
                                [at |-> now, by |-> "user", event |-> "run_created",
                                 payload |-> [runId |-> Get(run, "runId")]])])

\* mutant: the run is appended and the version bumped without an audit entry
RunAppendedUnaudited(session, run) ==
    LET vs == session.steps.vendorSearch
        vs2 == Merge(vs, [runs |-> Append(vs.runs, run), activeRunId |-> Get(run, "runId")])
    IN  Merge(session,
              [steps |-> Merge(session.steps, [vendorSearch |-> vs2]),
               version |-> session.version + 1])

\* the session with run appended and made the active run
RunAppended(session, run) ==
    LET vs == session.steps.vendorSearch
        vs2 == Merge(vs, [runs |-> Append(vs.runs, run), activeRunId |-> Get(run, "runId")])
    IN  Merge(session,
              [steps |-> Merge(session.steps, [vendorSearch |-> vs2]),
               version |-> session.version + 1,
               audit |-> Append(session.audit,
                                [at |-> now, by |-> "user", event |-> "run_created",
                                 payload |-> [runId |-> Get(run, "runId")]])])

\* POST /api/kiba/sessions/{session_id}/runs
kiba_create_run(session_id, body) ==
    LET run == RunOf(body)
        found == StoreHas(kiba_session_store, KibaTtl, session_id)
        session == IF found THEN StoreGet(kiba_session_store, session_id)
                   ELSE _default_kiba_session(session_id)
        updated == RunAppended(session, run.value)
    IN  /\ IF run.type # "object"
           THEN /\ last' = Call("appendRun", session_id, body,
                                Response(400, [error |-> "invalid_run"]))
                /\ UNCHANGED kiba_session_store
           ELSE IF "vendorSearch" \notin DOMAIN session.steps
           THEN \* session["steps"]["vendorSearch"] raises KeyError
                /\ last' = Call("appendRun", session_id, body,
                                Response(500, [error |-> "'vendorSearch'"]))
                /\ UNCHANGED kiba_session_store
           ELSE /\ session.version < MaxVersion
                /\ kiba_session_store' = StoreSet(kiba_session_store, session_id, updated)
                /\ last' = Call("appendRun", session_id, body, Response(200, updated))
        /\ KpaUnchanged

\* mutant: the snapshot of the first run, whichever run is active
FirstRunSnapshot(runs, active) ==
    IF runs = <<>> THEN EmptyDict ELSE Get(runs[1], "vendorsSnapshot")

\* next((r.get("vendorsSnapshot") for r in runs if r.get("runId") == active), {})
ActiveSnapshot(runs, active) ==
    LET hits == { i \in 1..Len(runs) : Get(runs[i], "runId") = active }
        first == CHOOSE i \in hits : \A j \in hits : i <= j
    IN  IF hits = {} THEN EmptyDict ELSE Get(runs[first], "vendorsSnapshot")

\* the sub-maps of steps that close indexes, in the order it indexes them
CloseStepKeys == <<"vendorSearch", "evaluation", "selection">>

\* the first sub-map close finds missing (KeyError), or None
CloseMissingKey(session) ==
    LET missing == { i \in 1..Len(CloseStepKeys) : CloseStepKeys[i] \notin DOMAIN session.steps }
    IN  IF missing = {} THEN None
        ELSE CloseStepKeys[CHOOSE i \in missing : \A j \in missing : i <= j]

\* mutant: a session that is already closed fails the validation as well
CloseInvalidOrClosed(session) ==
    \/ session.status = "closed"
    \/ Len(session.steps.vendorSearch.runs) < 1
    \/ Len(session.steps.evaluation.shortlistVendorIds) < 1
    \/ session.steps.selection.selectedVendorId = None

\* len(runs) < 1 or len(shortlist) < 1 or not selected
CloseInvalid(session) ==
    \/ Len(session.steps.vendorSearch.runs) < 1
    \/ Len(session.steps.evaluation.shortlistVendorIds) < 1
    \/ session.steps.selection.selectedVendorId = None

\* the body of the 400 response of close
CloseError(session) == [error |-> "validation_failed"]

\* the closed copy of the session, with its final snapshot
Closed(session) ==
    LET vs == session.steps.vendorSearch
    IN  Merge(session,
              [status |-> "closed",
               final |-> [activeRunId |-> vs.activeRunId,
                          vendorsSnapshot |-> ActiveSnapshot(vs.runs, vs.activeRunId),
                          selection |-> session.steps.selection,
                          steps |-> session.steps],
               version |-> session.version + 1,
               audit |-> Append(session.audit,
                                [at |-> now, by |-> "user", event |-> "closed"])])

\* mutant: close stores the default record for an absent id, as get does
CloseNotFoundCreating(session_id) ==
    /\ last' = Call("close", session_id, EmptyDict, Response(404, [error |-> "not_found"]))
    /\ kiba_session_store' =
          StoreSet(kiba_session_store, session_id, _default_kiba_session(session_id))

\* if not session: return JSONResponse({"error": "not_found"}, status_code=404)
CloseNotFound(session_id) ==
    /\ last' = Call("close", session_id, EmptyDict, Response(404, [error |-> "not_found"]))
    /\ UNCHANGED kiba_session_store

\* POST /api/kiba/sessions/{session_id}/close
kiba_close_session(session_id) ==
    LET found == StoreHas(kiba_session_store, KibaTtl, session_id)
        session == StoreGet(kiba_session_store, session_id)
    IN  /\ IF ~found
           THEN CloseNotFound(session_id)
           ELSE IF CloseMissingKey(session) # None
           THEN /\ last' = Call("close", session_id, EmptyDict,
                                Response(500, [error |-> CloseMissingKey(session)]))
                /\ UNCHANGED kiba_session_store
           ELSE IF CloseInvalid(session)
           THEN /\ last' = Call("close", session_id, EmptyDict,
                                Response(400, CloseError(session)))
                /\ UNCHANGED kiba_session_store
           ELSE /\ session.version < MaxVersion
                /\ kiba_session_store' =
                      StoreSet(kiba_session_store, session_id, Closed(session))
                /\ last' = Call("close", session_id, EmptyDict,
                                Response(200, Closed(session)))
        /\ KpaUnchanged

-----------------------------------------------------------------------------
(* KPA one-flow sessions                                                    *)

KpaIds == {"p1"}
\* mutant: the KPA store is configured without a TTL
KpaTtlNone == NoTtl

\* kpa_session_store = SessionStore(ttl_seconds=60*30)
KpaTtl == <<KpaTtlSeconds>>

KibaUnchanged == UNCHANGED kiba_session_store

Questions == {"Q1", "Q2", "Q3"}

\* the lists of candidate questions the intake collaborator may return
CandidateLists ==
    { <<"Q1", "Q2">>, <<"Q1", "Q3">>, <<"Q3", "Q3">> }

Range(seq) == { seq[i] : i \in 1..Len(seq) }

\* (body.get("product_name") or "").strip()
Strip(str) == IF str \in {"", " "} THEN "" ELSE str

\* x or default, for a number x
OrNumber(x, default) == IF x = 0 THEN default ELSE x

IntakeBodies ==
    { [session_id |-> "p1", product_name |-> "laptop", budget_usd |-> 100, quantity |-> 1],
      [session_id |-> "p1", product_name |-> " ", budget_usd |-> 100, quantity |-> 1] }

\* the field of the request the validation rejects, or None
IntakeInvalid(body) ==
    IF Strip(body.product_name) = "" THEN "product_name is required"
    ELSE IF OrNumber(body.quantity, 1) < 1 THEN "quantity must be >= 1"
    ELSE IF OrNumber(body.budget_usd, 0) < 0 THEN "budget_usd must be >= 0"
    ELSE None

\* mutant: the candidates are returned unfiltered
NewQuestionsUnfiltered(candidates, asked_questions) == candidates

\* [q for q in candidates if q not in asked_questions]
NewQuestions(candidates, asked_questions) ==
    SelectSeq(candidates, LAMBDA q : q \notin asked_questions)

\* mutant: only the questions of this round are remembered
AskedOnlyNew(asked_questions, new_questions) == Range(new_questions)

\* asked_questions.union(new_questions)
AskedAfter(asked_questions, new_questions) == asked_questions \cup Range(new_questions)

\* the record kpa_session_store holds for session_id, if it is live
KpaLive(session_id) == StoreHas(kpa_session_store, KpaTtl, session_id)
KpaSession(session_id) == StoreGet(kpa_session_store, session_id)

\* POST /api/intake_recommendations; candidates is what run_intake returns as
\* missing_info_questions, and "scope" stands for the normalized scope text
intake_recommendations(body, candidates) ==
    LET session_id == body.session_id
        found == KpaLive(session_id)
        prev_session == IF found THEN KpaSession(session_id) ELSE EmptyDict
        asked_questions == IF "asked_questions" \in DOMAIN prev_session
                           THEN prev_session.asked_questions ELSE {}
        new_questions == NewQuestions(candidates, asked_questions)
        intake == [status |-> "questions",
                   requirements_summary |-> "summary",
                   missing_info_questions |-> new_questions]
        session_data ==
            [product_name |-> Strip(body.product_name),
             budget_usd |-> OrNumber(body.budget_usd, 0),
             quantity |-> OrNumber(body.quantity, 1),
             scope_text |-> "scope",
             intake_result |-> intake,
             answers |-> IF "answers" \in DOMAIN prev_session
                         THEN prev_session.answers ELSE EmptyDict,
             asked_questions |-> AskedAfter(asked_questions, new_questions),
             ts |-> now]
    IN  /\ IF IntakeInvalid(body) # None
           THEN /\ last' = Call("intake", session_id, body,
                                Response(400, [detail |-> IntakeInvalid(body)]))
                /\ UNCHANGED <<kpa_session_store, everReturned, lifeReturned>>
           ELSE /\ kpa_session_store' =
                      StoreSet(StoreAfterGet(kpa_session_store, KpaTtl, session_id),
                               session_id, session_data)
                /\ last' = Merge(Call("intake", session_id, body,
                                      Response(200, [session_id |-> session_id,
                                                     intake |-> intake])),
                                 [candidates |-> candidates])
                /\ everReturned' = everReturned \cup Range(new_questions)
                /\ lifeReturned' = (IF found THEN lifeReturned ELSE {}) \cup Range(new_questions)
        /\ UNCHANGED <<now, lastSet, inflight>>
        /\ KibaUnchanged

\* the (question -> answer) pairs a client submits
AnswerUpdates ==
    { [Q1 |-> "A1"], [Q1 |-> "A2", Q2 |-> "A2"] }

\* mutant: the stored answers win over the submitted ones
MergedAnswersOldWins(session, new_answers) == Merge(new_answers, session.answers)

\* {**(session.get("answers") or {}), **new_answers}
MergedAnswers(session, new_answers) == Merge(session.answers, new_answers)

\* the handler found no live session: an expired record is dropped by the read
KpaMiss(op, session_id, body, code) ==
    /\ kpa_session_store' = StoreAfterGet(kpa_session_store, KpaTtl, session_id)
    /\ last' = Call(op, session_id, body, Response(code, [detail |-> "Session not found or expired"]))

\* POST /api/submit_followups
submit_followups(session_id, new_answers) ==
    LET session == KpaSession(session_id)
        merged_answers == MergedAnswers(session, new_answers)
        body == [session_id |-> session_id, followup_answers |-> new_answers]
    IN  /\ IF ~KpaLive(session_id)
           THEN KpaMiss("submit_followups", session_id, body, 400)
           ELSE /\ kpa_session_store' =
                      StoreSet(kpa_session_store, session_id,
                               Merge(session, [answers |-> merged_answers, ts |-> now]))
                /\ last' = Call("submit_followups", session_id, body,
                                Response(200, [session_id |-> session_id,
                                               answers |-> merged_answers]))
        /\ UNCHANGED <<now, everReturned, lifeReturned, lastSet, inflight>>
        /\ KibaUnchanged

\* mutant: a missing version counts as 1
VersionOfFromOne(session) == IF "version" \in DOMAIN session THEN session.version ELSE 1

\* session.get("version") or 0
VersionOf(session) == IF "version" \in DOMAIN session THEN session.version ELSE 0

\* mutant: the read stamps the record again, as the mutating handlers do
get_session_touching(session_id) ==
    LET session == KpaSession(session_id)
    IN  /\ IF ~KpaLive(session_id)
           THEN KpaMiss("get_session", session_id, EmptyDict, 404)
           ELSE /\ kpa_session_store' = StoreSet(kpa_session_store, session_id, session)
                /\ last' = Call("get_session", session_id, EmptyDict,
                                Response(200, [session_id |-> session_id,
                                               version |-> VersionOf(session),
                                               intake |-> session.intake_result,
                                               answers |-> session.answers,
                                               has_recommendations |->
                                                   "recommendations" \in DOMAIN session]))
        /\ UNCHANGED <<now, everReturned, lifeReturned, lastSet, inflight>>
        /\ KibaUnchanged

\* GET /api/session/{session_id}
get_session(session_id) ==
    LET session == KpaSession(session_id)
    IN  /\ IF ~KpaLive(session_id)
           THEN KpaMiss("get_session", session_id, EmptyDict, 404)
           ELSE /\ UNCHANGED kpa_session_store
                /\ last' = Call("get_session", session_id, EmptyDict,
                                Response(200, [session_id |-> session_id,
                                               version |-> VersionOf(session),
                                               intake |-> session.intake_result,
                                               answers |-> session.answers,
                                               has_recommendations |->
                                                   "recommendations" \in DOMAIN session]))
        /\ UNCHANGED <<now, everReturned, lifeReturned, lastSet, inflight>>
        /\ KibaUnchanged

\* PATCH /api/session/{session_id}/answers
patch_answers(session_id, updates) ==
    LET session == KpaSession(session_id)
        merged_answers == MergedAnswers(session, updates)
        body == [followup_answers |-> updates]
    IN  /\ IF ~KpaLive(session_id)
           THEN KpaMiss("patch_answers", session_id, body, 404)
           ELSE /\ kpa_session_store' =
                      StoreSet(kpa_session_store, session_id,
                               Merge(session, [answers |-> merged_answers, ts |-> now]))
                /\ last' = Call("patch_answers", session_id, body,
                                Response(200, [session_id |-> session_id,
                                               answers |-> merged_answers,
                                               version |-> VersionOf(session)]))
        /\ UNCHANGED <<now, everReturned, lifeReturned, lastSet, inflight>>
        /\ KibaUnchanged

\* create_structured_summary(session, answers, intake_result): the text is a
\* function of the product fields, the scope, the answers and the intake summary
create_structured_summary(session, answers, intake_result) ==
    [product_name |-> session.product_name,
     quantity |-> session.quantity,
     budget_usd |-> session.budget_usd,
     scope_text |-> session.scope_text,
     answers |-> answers,
     requirements_summary |-> intake_result.requirements_summary]

\* generate_user_friendly_summary: the narrative of the text generator, or the
\* structured summary itself when the generator is unavailable or raises
UserFriendlySummaries(structured_summary) ==
    { [narrative_of |-> structured_summary], structured_summary }

\* POST /api/session/{session_id}/generate_summary
generate_project_summary(session_id) ==
    LET session == KpaSession(session_id)
        structured_summary ==
            create_structured_summary(session, session.answers, session.intake_result)
    IN  /\ IF ~KpaLive(session_id)
           THEN \* the HTTPException(404) is caught by `except Exception`
                KpaMiss("generate_summary", session_id, EmptyDict, 500)
           ELSE \E project_summary \in UserFriendlySummaries(structured_summary) :
                /\ kpa_session_store' =
                      StoreSet(kpa_session_store, session_id,
                               Merge(session, [project_summary |-> project_summary,
                                               structured_summary |-> structured_summary,
                                               ts |-> now]))
                /\ last' = Call("generate_summary", session_id, EmptyDict,
                                Response(200, [session_id |-> session_id,
                                               project_summary |-> project_summary,
                                               structured_summary |-> structured_summary]))
        /\ UNCHANGED <<now, everReturned, lifeReturned, lastSet, inflight>>
        /\ KibaUnchanged

\* postprocess_recs(run_recommendations(product, budget, quantity, summary)):
\* the result of the recommendation engine for the summary it was given
Recommendations(structured_summary) == [generated_from |-> structured_summary]

\* POST /api/session/{session_id}/regenerate
\* (the merged_scope key it also writes is read by no handler and is left out)
regenerate(session_id) ==
    LET session == KpaSession(session_id)
        structured_summary ==
            create_structured_summary(session, session.answers, session.intake_result)
        recs == Recommendations(structured_summary)
        version == VersionOf(session) + 1
    IN  /\ IF ~KpaLive(session_id)
           THEN KpaMiss("regenerate", session_id, EmptyDict, 404)
           ELSE /\ VersionOf(session) < MaxRecVersion
                /\ kpa_session_store' =
                      StoreSet(kpa_session_store, session_id,
                               Merge(session, [recommendations |-> recs,
                                               version |-> version,
                                               ts |-> now]))
                /\ last' = Call("regenerate", session_id, EmptyDict,
                                Response(200, [session_id |-> session_id,
                                               version |-> version,
                                               recommendations |-> recs]))
        /\ UNCHANGED <<now, everReturned, lifeReturned, lastSet, inflight>>
        /\ KibaUnchanged

\* POST /api/session/{session_id}/generate_recommendations
generate_final_recommendations(session_id) ==
    LET session == KpaSession(session_id)
        structured_summary ==
            IF "structured_summary" \in DOMAIN session
            THEN session.structured_summary
            ELSE create_structured_summary(session, session.answers, session.intake_result)
        recs == Recommendations(structured_summary)
        version == VersionOf(session) + 1
    IN  /\ IF ~KpaLive(session_id)
           THEN \* the HTTPException(404) is caught by `except Exception`
                KpaMiss("generate_recommendations", session_id, EmptyDict, 500)
           ELSE /\ VersionOf(session) < MaxRecVersion
                /\ kpa_session_store' =
                      StoreSet(kpa_session_store, session_id,
                               Merge(session, [recommendations |-> recs,
                                               version |-> version,
                                               ts |-> now]))
                /\ last' = Call("generate_recommendations", session_id, EmptyDict,
                                Response(200, [session_id |-> session_id,
                                               version |-> version,
                                               recommendations |-> recs]))
        /\ UNCHANGED <<now, everReturned, lifeReturned, lastSet, inflight>>
        /\ KibaUnchanged

\* time passes
Tick ==
    /\ now < MaxTicks * TickSeconds
    /\ now' = now + TickSeconds
    /\ last' = [op |-> "tick"]
    /\ UNCHANGED <<kiba_session_store, kpa_session_store, everReturned, lifeReturned,
                   lastSet, inflight>>

-----------------------------------------------------------------------------
Init ==
    /\ kiba_session_store = EmptyDict
    /\ kpa_session_store = EmptyDict
    /\ now = 0
    /\ last = [op |-> "none"]
    /\ everReturned = {}
    /\ lifeReturned = {}
    /\ lastSet = [name \in StoreNames |-> EmptyDict]
    /\ inflight = EmptyDict

Next ==
    \/ \E sid \in KibaIds : kiba_get_session(sid)
    \/ \E sid \in KibaIds, body \in PatchBodies : kiba_patch_session(sid, body)
    \/ \E sid \in KibaIds, body \in RunBodies : kiba_create_run(sid, body)
    \/ \E sid \in KibaIds : kiba_close_session(sid)

Spec == Init /\ [][Next]_vars

NextKpa ==
    \/ \E body \in IntakeBodies, candidates \in CandidateLists :
          intake_recommendations(body, candidates)
    \/ \E sid \in KpaIds, answers \in AnswerUpdates : submit_followups(sid, answers)
    \/ \E sid \in KpaIds : get_session(sid)
    \/ \E sid \in KpaIds, answers \in AnswerUpdates : patch_answers(sid, answers)
    \/ \E sid \in KpaIds : generate_project_summary(sid)
    \/ \E sid \in KpaIds : regenerate(sid)
    \/ \E sid \in KpaIds : generate_final_recommendations(sid)
    \/ Tick

SpecKpa == Init /\ [][NextKpa]_vars

-----------------------------------------------------------------------------
(* The intake endpoint alone, over request bodies on both sides of each     *)
(* validation rule.                                                         *)

ValidationBodies ==
    { [session_id |-> "p1", product_name |-> name, budget_usd |-> budget, quantity |-> qty] :
        name \in {"laptop", "desk", " ", ""}, budget \in {-5, 0, 100}, qty \in {-1, 0, 1, 2} }

NextIntake ==
    \E body \in ValidationBodies, candidates \in CandidateLists :
        intake_recommendations(body, candidates)

SpecIntake == Init /\ [][NextIntake]_vars

-----------------------------------------------------------------------------
(* The two SessionStore instances driven directly: get and set on either    *)
(* store, with the clock advancing in steps of half the KPA TTL so that a    *)
(* read falls before, exactly on and after the expiry of a record.          *)

StoreKeys == {"s1", "s2"}
StorePayloads == {"a", "b"}

\* half of ttl_seconds of the KPA store
HalfTtl == KpaTtlSeconds \div 2

StoreOf(name) == IF name = "kpa" THEN kpa_session_store ELSE kiba_session_store
TtlOf(name) == IF name = "kpa" THEN KpaTtl ELSE KibaTtl

\* name_session_store.get(key)
SessionStore_get(name, key) ==
    LET store == StoreOf(name)
        found == StoreHas(store, TtlOf(name), key)
    IN  /\ last' = [op |-> "store.get", store |-> name, key |-> key, found |-> found,
                    payload |-> IF found THEN StoreGet(store, key) ELSE None]
        /\ IF name = "kpa"
           THEN /\ kpa_session_store' = StoreAfterGet(store, TtlOf(name), key)
                /\ UNCHANGED kiba_session_store
           ELSE /\ kiba_session_store' = StoreAfterGet(store, TtlOf(name), key)
                /\ UNCHANGED kpa_session_store
        /\ UNCHANGED <<now, everReturned, lifeReturned, lastSet, inflight>>

\* name_session_store.set(key, payload)
SessionStore_set(name, key, payload) ==
    LET store == StoreOf(name)
    IN  /\ last' = [op |-> "store.set", store |-> name, key |-> key, payload |-> payload]
        /\ IF name = "kpa"
           THEN /\ kpa_session_store' = StoreSet(store, key, payload)
                /\ UNCHANGED kiba_session_store
           ELSE /\ kiba_session_store' = StoreSet(store, key, payload)
                /\ UNCHANGED kpa_session_store
        /\ lastSet' = [lastSet EXCEPT ![name] =
                          Merge(@, [k \in {key} |-> [payload |-> payload, at |-> now]])]
        /\ UNCHANGED <<now, everReturned, lifeReturned, inflight>>

\* half a TTL passes
TickHalfTtl ==
    /\ now < MaxStoreTicks * HalfTtl
    /\ now' = now + HalfTtl
    /\ last' = [op |-> "tick"]
    /\ UNCHANGED <<kiba_session_store, kpa_session_store, everReturned, lifeReturned,
                   lastSet, inflight>>

NextStore ==
    \/ \E name \in StoreNames, key \in StoreKeys : SessionStore_get(name, key)
    \/ \E name \in StoreNames, key \in StoreKeys, payload \in StorePayloads :
          SessionStore_set(name, key, payload)
    \/ TickHalfTtl

SpecStore == Init /\ [][NextStore]_vars

-----------------------------------------------------------------------------
(* kiba_patch_session under a runtime that may switch to another request    *)
(* between the handler's store read and its store write: the handler of     *)
(* each caller is split into the steps up to the version check and the      *)
(* steps from the merge to the response.                                    *)

Callers == {"a", "b"}

\* the bodies the racing callers send; none carries an audit key
RaceBodies ==
    { [status |-> "closed", version |-> 1],
      [currentStep |-> "selection", version |-> 1],
      [currentStep |-> "selection"],
      [status |-> "closed", version |-> 2] }

\* caller is between the read and the write of a patch
Reading(caller) == caller \in DOMAIN inflight /\ inflight[caller].phase = "read"

\* body, patch and session up to the version check (server.py lines 2148-2158)
kiba_patch_session_read(caller, session_id, body) ==
    LET found == StoreHas(kiba_session_store, KibaTtl, session_id)
        session == IF found THEN StoreGet(kiba_session_store, session_id)
                   ELSE _default_kiba_session(session_id)
        call == [sid |-> session_id, body |-> body, session |-> session]
    IN  /\ ~Reading(caller)
        /\ IF VersionConflict(body, session)
           THEN /\ last' = Merge(Call("patch", session_id, body,
                                      Response(409, [error |-> "version_conflict",
                                                     serverVersion |-> session.version])),
                                 [caller |-> caller])
                /\ inflight' = Merge(inflight,
                                     [c \in {caller} |-> Merge(call, [phase |-> "done",
                                                                      code |-> 409])])
           ELSE /\ session.version < MaxRaceVersion
                /\ last' = [op |-> "patch_read", sid |-> session_id, caller |-> caller]
                /\ inflight' = Merge(inflight,
                                     [c \in {caller} |-> Merge(call, [phase |-> "read"])])
        /\ UNCHANGED kiba_session_store
        /\ UNCHANGED <<kpa_session_store, now, everReturned, lifeReturned, lastSet>>

\* mutant: the merge starts from the record the store holds at the write
RaceBaseFresh(caller) ==
    IF StoreHas(kiba_session_store, KibaTtl, inflight[caller].sid)
    THEN {StoreGet(kiba_session_store, inflight[caller].sid)}
    ELSE {inflight[caller].session}

\* the session the merge starts from: the one the handler has read.  Its
\* audit list is the list object of the record it read: when the store hands
\* out its own objects, the entries other handlers have appended since are in
\* it, when it hands out copies they are not.
RaceBase(caller) ==
    LET session == inflight[caller].session
        sid == inflight[caller].sid
    IN  {session} \cup
        (IF StoreHas(kiba_session_store, KibaTtl, sid)
            /\ IsPrefix(session.audit, StoreGet(kiba_session_store, sid).audit)
         THEN {Merge(session, [audit |-> StoreGet(kiba_session_store, sid).audit])}
         ELSE {})

\* merge, version, audit entry, store write and response (lines 2160-2171)
kiba_patch_session_write(caller) ==
    /\ Reading(caller)
    /\ \E session \in RaceBase(caller) :
          LET call == inflight[caller]
              updated == PatchApplied(session, Without(call.body, "version"))
          IN  /\ kiba_session_store' = StoreSet(kiba_session_store, call.sid, updated)
              /\ last' = Merge(Call("patch", call.sid, call.body, Response(200, updated)),
                               [caller |-> caller])
              /\ inflight' = Merge(inflight,
                                   [c \in {caller} |-> Merge(call, [phase |-> "done",
                                                                    code |-> 200])])
    /\ UNCHANGED <<kpa_session_store, now, everReturned, lifeReturned, lastSet>>

NextRace ==
    \/ \E caller \in Callers, sid \in KibaIds, body \in RaceBodies :
          kiba_patch_session_read(caller, sid, body)
    \/ \E caller \in Callers : kiba_patch_session_write(caller)

SpecRace == Init /\ [][NextRace]_vars

-----------------------------------------------------------------------------
(* patch_answers under the cooperative scheduler.  The handler reads the    *)
(* session, then awaits the request body, then merges and writes: while it  *)
(* is suspended at the await, the handlers of other requests run, each up   *)
(* to its own completion.  One patch_answers request is in flight at a      *)
(* time, and the requests that run meanwhile are intake and get_session,    *)
(* which do not write into the dict object the suspended handler holds.     *)

\* session = kpa_session_store.get(session_id), the 404, and the suspension
\* at `body = await req.json()` (server.py lines 1584-1588)
patch_answers_read(caller, session_id) ==
    /\ inflight = EmptyDict
    /\ IF ~KpaLive(session_id)
       THEN /\ KpaMiss("patch_answers", session_id, EmptyDict, 404)
            /\ UNCHANGED inflight
       ELSE /\ UNCHANGED kpa_session_store
            /\ last' = [op |-> "patch_answers_read", sid |-> session_id]
            /\ inflight' = [c \in {caller} |->
                               [sid |-> session_id, session |-> KpaSession(session_id)]]
    /\ UNCHANGED <<now, everReturned, lifeReturned, lastSet>>
    /\ KibaUnchanged

\* the handler after the await: merge, update, store write and response
\* (server.py lines 1589-1602)
patch_answers_resume(caller, updates) ==
    /\ caller \in DOMAIN inflight
    /\ LET session_id == inflight[caller].sid
           session == inflight[caller].session
           merged_answers == MergedAnswers(session, updates)
       IN  /\ kpa_session_store' =
                 StoreSet(kpa_session_store, session_id,
                          Merge(session, [answers |-> merged_answers, ts |-> now]))
           /\ last' = Call("patch_answers", session_id, [followup_answers |-> updates],
                           Response(200, [session_id |-> session_id,
                                          answers |-> merged_answers,
                                          version |-> VersionOf(session)]))
    /\ inflight' = Without(inflight, caller)
    /\ UNCHANGED <<now, everReturned, lifeReturned, lastSet>>
    /\ KibaUnchanged

NextAwait ==
    \/ \E body \in IntakeBodies, candidates \in CandidateLists :
          intake_recommendations(body, candidates)
    \/ \E sid \in KpaIds : get_session(sid)
    \/ \E sid \in KpaIds : patch_answers_read("a", sid)
    \/ \E updates \in AnswerUpdates : patch_answers_resume("a", updates)

SpecAwait == Init /\ [][NextAwait]_vars

-----------------------------------------------------------------------------
(* The two wrappers around the external text generator, as functions of     *)
(* their arguments and of what the generator does when it is called.        *)

\* what the generator client does: it is None, its call raises, or it replies
\* with a message whose content is None, is not JSON, or is a JSON object
Clients ==
    { [state |-> "none"],
      [state |-> "raises"],
      [state |-> "replies", content |-> [kind |-> "null"]],
      [state |-> "replies", content |-> [kind |-> "text"]],
      [state |-> "replies", content |-> [kind |-> "json",
                                         value |-> [status |-> "questions"]]],
      [state |-> "replies", content |-> [kind |-> "json",
                                         value |-> [status |-> "questions",
                                                    requirements_summary |-> "summary",
                                                    missing_info_questions |-> <<"Q1", "Q2">>]]],
      [state |-> "replies", content |-> [kind |-> "json",
                                         value |-> [status |-> "ready",
                                                    requirements_summary |-> "summary",
                                                    missing_info_questions |-> <<>>]]] }

\* the dict run_intake returns when client is None
IntakeWithoutClient(product_name, budget, quantity) ==
    [status |-> "questions",
     requirements_summary |-> [product_name |-> product_name, budget |-> budget,
                               quantity |-> quantity, thousands_separator |-> FALSE],
     missing_info_questions |->
         << <<"What specific tasks will", product_name, "be used for?">>,
            <<"What are your performance requirements?">>,
            <<"Do you have any compliance requirements?">>,
            <<"What is your preferred delivery timeline?">> >>]

\* mutant: the fallback after an exception carries no questions
IntakeFallbackEmpty(product_name, budget, quantity) ==
    [status |-> "questions",
     requirements_summary |-> [product_name |-> product_name, budget |-> budget,
                               quantity |-> quantity, thousands_separator |-> TRUE],
     missing_info_questions |-> <<>>]

\* the dict run_intake returns from its `except Exception` branch
IntakeFallback(product_name, budget, quantity) ==
    [status |-> "questions",
     requirements_summary |-> [product_name |-> product_name, budget |-> budget,
                               quantity |-> quantity, thousands_separator |-> TRUE],
     missing_info_questions |->
         << <<"What specific tasks will", product_name, "be used for?">>,
            <<"What are your performance requirements?">>,
            <<"Do you have any compliance or security requirements?">>,
            <<"What is your preferred delivery timeline?">>,
            <<"Do you need any special features or capabilities?">> >>]

\* the reply makes run_intake raise: no content, content that is not JSON, or
\* a JSON object without status or requirements_summary
IntakeReplyRejected(content) ==
    \/ content.kind # "json"
    \/ "status" \notin DOMAIN content.value
    \/ "requirements_summary" \notin DOMAIN content.value

\* services.procurement_intake.run_intake
run_intake(product_name, budget, quantity, scope_text, client) ==
    IF client.state = "none" THEN IntakeWithoutClient(product_name, budget, quantity)
    ELSE IF client.state = "raises" \/ IntakeReplyRejected(client.content)
    THEN IntakeFallback(product_name, budget, quantity)
    ELSE client.content.value

\* generate_user_friendly_summary: response.choices[0].message.content.strip()
\* of the reply, and structured_summary when there is no client or anything raises
generate_user_friendly_summary(session, answers, structured_summary, client) ==
    IF client.state \in {"none", "raises"} THEN structured_summary
    ELSE IF client.content.kind = "null" THEN structured_summary
    ELSE [narrative_of |-> structured_summary]

ProductNames == {"laptop", "desk"}
Budgets == {0, 100, 2500}
Quantities == {1, 2}

\* a call of run_intake
RunIntake ==
    \E product_name \in ProductNames, budget \in Budgets, quantity \in Quantities,
       client \in Clients :
        /\ last' = [op |-> "run_intake", product_name |-> product_name, budget |-> budget,
                    quantity |-> quantity, client |-> client,
                    result |-> run_intake(product_name, budget, quantity, "scope", client)]
        /\ UNCHANGED <<kiba_session_store, kpa_session_store, now, everReturned,
                       lifeReturned, lastSet, inflight>>

\* a call of generate_user_friendly_summary
GenerateUserFriendlySummary ==
    \E product_name \in ProductNames, budget \in Budgets, quantity \in Quantities,
       answers \in AnswerUpdates \cup {EmptyDict}, client \in Clients :
        LET session == [product_name |-> product_name, budget_usd |-> budget,
                        quantity |-> quantity, scope_text |-> "scope"]
            structured_summary ==
                create_structured_summary(session, answers,
                                          [requirements_summary |-> "summary"])
        IN  /\ last' = [op |-> "generate_user_friendly_summary",
                        structured_summary |-> structured_summary, client |-> client,
                        result |-> generate_user_friendly_summary(
                                       session, answers, structured_summary, client)]
            /\ UNCHANGED <<kiba_session_store, kpa_session_store, now, everReturned,
                           lifeReturned, lastSet, inflight>>

NextCollaborator == RunIntake \/ GenerateUserFriendlySummary

SpecCollaborator == Init /\ [][NextCollaborator]_vars

-----------------------------------------------------------------------------
(* Properties of the KIBA session handlers, checked under Spec.  In a step  *)
(* of Spec, last' is the call the step handles, the unprimed variables are  *)
(* the state before the call and the primed ones the state after it.        *)

\* the session a handler works on when it reads or initialises session_id
KibaBefore(sid) ==
    IF StoreHas(kiba_session_store, KibaTtl, sid)
    THEN StoreGet(kiba_session_store, sid)
    ELSE _default_kiba_session(sid)

KibaAfter(sid) == kiba_session_store'[sid].value

KibaSucceeded(ops) == last'.op \in ops /\ last'.code = 200

\* C1: a patch whose expected version differs from the stored version v is
\* answered 409 with serverVersion = v and leaves the store exactly as it was
\* (no record is created for an absent id).
C1_PatchConflictRejected ==
    [][ ( /\ last'.op = "patch"
          /\ "version" \in DOMAIN last'.body
          /\ last'.body.version # KibaBefore(last'.sid).version )
        => ( /\ last'.code = 409
             /\ last'.content.error = "version_conflict"
             /\ last'.content.serverVersion = KibaBefore(last'.sid).version
             /\ kiba_session_store' = kiba_session_store ) ]_vars

\* a conflicting patch on a stored session whose version has already moved on
C1_Witness ==
    /\ last.op = "patch"
    /\ last.code = 409
    /\ last.sid \in DOMAIN kiba_session_store
    /\ last.content.serverVersion = 3
    /\ last.body.version = 2

\* C2: every successful patch, appendRun and close stores the version before
\* the call plus one and returns the stored record, whatever the body holds.
C2_VersionPlusOne ==
    [][ KibaSucceeded({"patch", "appendRun", "close"})
        => ( /\ KibaAfter(last'.sid).version = KibaBefore(last'.sid).version + 1
             /\ last'.content = KibaAfter(last'.sid) ) ]_vars

\* a successful patch that carried the (matching) expected version
C2_Witness ==
    /\ last.op = "patch"
    /\ last.code = 200
    /\ "version" \in DOMAIN last.body
    /\ last.body.version = 2
    /\ kiba_session_store[last.sid].value.version = 3

\* C3: each successful patch, appendRun and close makes the audit sequence
\* one entry longer and keeps the old audit as a prefix of the new one.
C3_AuditAppendOnly ==
    [][ KibaSucceeded({"patch", "appendRun", "close"})
        => ( /\ Len(KibaAfter(last'.sid).audit) = Len(KibaBefore(last'.sid).audit) + 1
             /\ IsPrefix(KibaBefore(last'.sid).audit, KibaAfter(last'.sid).audit) ) ]_vars

\* steps.vendorSearch.runs, empty when the sub-map is missing
RunsOf(session) ==
    IF "vendorSearch" \in DOMAIN session.steps
    THEN session.steps.vendorSearch.runs
    ELSE <<>>

\* C4: after every successful patch and close the stored runs have the runs
\* stored before the call as a prefix.
C4_RunsAppendOnly ==
    [][ KibaSucceeded({"patch", "close"})
        => IsPrefix(RunsOf(KibaBefore(last'.sid)), RunsOf(KibaAfter(last'.sid))) ]_vars

\* the audit of a session that has seen only appendRun calls since it was created
OnlyRunsAppended(session) ==
    /\ session.audit[1].event = "session_init"
    /\ \A i \in 2..Len(session.audit) : session.audit[i].event = "run_created"

\* C5: a successful appendRun(run) stores the earlier runs followed by run and
\* makes run's runId the active run; after N appendRun calls on a fresh
\* session runs holds the N runs in call order.
C5_AppendRun ==
    /\ [][ KibaSucceeded({"appendRun"})
           => LET run == RunOf(last'.body).value
                  vs == KibaAfter(last'.sid).steps.vendorSearch
              IN  /\ vs.runs = KibaBefore(last'.sid).steps.vendorSearch.runs \o <<run>>
                  /\ vs.activeRunId = Get(run, "runId") ]_vars
    /\ [](\A sid \in DOMAIN kiba_session_store :
            LET session == kiba_session_store[sid].value
                runs == RunsOf(session)
            IN  OnlyRunsAppended(session)
                => /\ Len(runs) = Len(session.audit) - 1
                   /\ \A i \in 1..Len(runs) :
                        Get(runs[i], "runId") = session.audit[i + 1].payload.runId
                   /\ Len(runs) > 0
                        => session.steps.vendorSearch.activeRunId
                             = Get(runs[Len(runs)], "runId"))

\* two different runs appended to a fresh session, in call order
C5_Witness ==
    /\ last.op = "appendRun"
    /\ last.code = 200
    /\ OnlyRunsAppended(kiba_session_store[last.sid].value)
    /\ kiba_session_store[last.sid].value.steps.vendorSearch.runs = <<Run1, Run2>>
    /\ kiba_session_store[last.sid].value.steps.vendorSearch.activeRunId = "r2"

\* the preconditions of close that the session does not meet: a missing
\* sub-map of steps counts as neither met nor unmet
Unmet(session) ==
    LET steps == session.steps
    IN  (IF "vendorSearch" \in DOMAIN steps /\ Len(steps.vendorSearch.runs) = 0
         THEN {"no runs"} ELSE {})
        \cup (IF "evaluation" \in DOMAIN steps
                 /\ Len(steps.evaluation.shortlistVendorIds) = 0
              THEN {"empty shortlist"} ELSE {})
        \cup (IF "selection" \in DOMAIN steps
                 /\ steps.selection.selectedVendorId = None
              THEN {"no selection"} ELSE {})

\* the session has at least one run, a non-empty shortlist and a selected vendor
AllMet(session) ==
    /\ {"vendorSearch", "evaluation", "selection"} \subseteq DOMAIN session.steps
    /\ Unmet(session) = {}

\* C9: close on an existing session is answered 400 and changes nothing
\* whenever runs is empty, the shortlist is empty or no vendor is selected,
\* and succeeds when all three preconditions hold.
C9_ClosePreconditions ==
    [][ (last'.op = "close" /\ last'.sid \in DOMAIN kiba_session_store)
        => /\ Unmet(KibaBefore(last'.sid)) # {}
              => (last'.code = 400 /\ kiba_session_store' = kiba_session_store)
           /\ AllMet(KibaBefore(last'.sid)) => last'.code = 200 ]_vars

\* C9 on the sessions that still hold the three sub-maps of steps
C9_OnCompleteSteps ==
    [][ ( /\ last'.op = "close"
          /\ last'.sid \in DOMAIN kiba_session_store
          /\ {"vendorSearch", "evaluation", "selection"}
                \subseteq DOMAIN KibaBefore(last'.sid).steps )
        => IF Unmet(KibaBefore(last'.sid)) # {}
           THEN last'.code = 400 /\ kiba_session_store' = kiba_session_store
           ELSE last'.code = 200 ]_vars

\* sessions that differ in the precondition of close they fail
CloseProbes ==
    { Merge(_default_kiba_session("k1"), [steps |-> st]) :
        st \in {StepsNoRuns, StepsNoShortlist, StepsNoSelection} }

\* C10: the 400 response of close identifies the unmet precondition: two
\* sessions rejected for different preconditions get different errors.
C10_CloseErrorNamesPrecondition ==
    (last.op = "close" /\ last.code = 400)
    => \A other \in CloseProbes :
          (CloseInvalid(other) /\ CloseError(other) = last.content)
          => Unmet(other) = Unmet(kiba_session_store[last.sid].value)

\* C11: a successful close stores status closed and a final snapshot whose
\* selection and steps are the steps.selection and steps of the session before
\* the call, and whose vendorsSnapshot is that of the first run whose runId is
\* activeRunId (null when that run carries none), or {} when no run matches.
C11_CloseSnapshot ==
    [][ KibaSucceeded({"close"})
        => LET before == KibaBefore(last'.sid)
               after == KibaAfter(last'.sid)
               runs == before.steps.vendorSearch.runs
               active == before.steps.vendorSearch.activeRunId
               hits == { i \in 1..Len(runs) : Get(runs[i], "runId") = active }
           IN  /\ after.status = "closed"
               /\ after.final.selection = before.steps.selection
               /\ after.final.steps = before.steps
               /\ IF hits = {}
                  THEN after.final.vendorsSnapshot = EmptyDict
                  ELSE \E i \in hits :
                          /\ \A j \in hits : i <= j
                          /\ IF "vendorsSnapshot" \in DOMAIN runs[i]
                             THEN after.final.vendorsSnapshot = runs[i].vendorsSnapshot
                             ELSE after.final.vendorsSnapshot = None ]_vars

\* a close whose active run is the second of two runs
C11_Witness ==
    /\ last.op = "close"
    /\ last.code = 200
    /\ kiba_session_store[last.sid].value.steps.vendorSearch.runs = <<Run1, Run2>>
    /\ kiba_session_store[last.sid].value.steps.vendorSearch.activeRunId = "r2"
    /\ kiba_session_store[last.sid].value.final.vendorsSnapshot = [vendors |-> "B"]
    /\ kiba_session_store[last.sid].value.final.selection.selectedVendorId = "v1"

\* a close whose activeRunId names no run: the snapshot is empty
C11_NoMatchReached ==
    /\ last.op = "close"
    /\ last.code = 200
    /\ kiba_session_store[last.sid].value.steps.vendorSearch.activeRunId = "r9"
    /\ kiba_session_store[last.sid].value.final.vendorsSnapshot = EmptyDict

\* C12: close on an id that has no record is answered 404 and leaves the
\* store as it was, so the id is still absent after the call.
C12_CloseAbsent ==
    /\ [][ (last'.op = "close" /\ last'.sid \notin DOMAIN kiba_session_store)
           => ( /\ last'.code = 404
                /\ kiba_session_store' = kiba_session_store
                /\ last'.sid \notin DOMAIN kiba_session_store' ) ]_vars
    /\ []( (last.op = "close" /\ last.code = 404)
           => ~StoreHas(kiba_session_store, KibaTtl, last.sid) )

\* close answered 404 on a store that holds no record
C12_Witness ==
    /\ last.op = "close"
    /\ last.code = 404
    /\ last.sid \notin DOMAIN kiba_session_store

\* C13: closed is terminal: no get, patch, appendRun or close call on a
\* session whose stored status is closed stores a record whose status is open.
C13_ClosedIsTerminal ==
    [][ \A sid \in DOMAIN kiba_session_store :
          kiba_session_store[sid].value.status = "closed"
          => kiba_session_store'[sid].value.status # "open" ]_vars

KibaAbsent(sid) == ~StoreHas(kiba_session_store, KibaTtl, sid)

\* the record is the default one: open, at the request step, no runs, empty
\* shortlist, no selection, version 1 and a single session_init audit entry
IsDefaultRecord(session) ==
    /\ session.status = "open"
    /\ session.currentStep = "request"
    /\ session.steps.vendorSearch.runs = <<>>
    /\ session.steps.evaluation.shortlistVendorIds = <<>>
    /\ session.steps.selection.selectedVendorId = None
    /\ session.version = 1
    /\ Len(session.audit) = 1
    /\ session.audit[1].event = "session_init"

\* get stores and returns the default record for an absent id, and returns
\* the stored record, changing nothing, for a present one
GetReadsOrInits ==
    last'.op = "get"
    => IF KibaAbsent(last'.sid)
       THEN /\ IsDefaultRecord(last'.content)
            /\ KibaAfter(last'.sid) = last'.content
       ELSE /\ last'.content = KibaBefore(last'.sid)
            /\ kiba_session_store' = kiba_session_store

\* a successful patch or appendRun on an absent id gives version 2 and two
\* audit entries, the first of them session_init
MutationInits ==
    (KibaSucceeded({"patch", "appendRun"}) /\ KibaAbsent(last'.sid))
    => /\ KibaAfter(last'.sid).version = 2
       /\ Len(KibaAfter(last'.sid).audit) = 2
       /\ KibaAfter(last'.sid).audit[1].event = "session_init"
       /\ last'.content = KibaAfter(last'.sid)

\* C16: get on an absent id stores and returns the default record and get on
\* a present id returns the stored record unchanged; a successful patch or
\* appendRun on an absent id results in version 2 and two audit entries.
C16_ReadOrInit == [][ GetReadsOrInits /\ MutationInits ]_vars

\* C16 without the patches that carry an audit key
C16_WithoutAuditKey ==
    [][ /\ GetReadsOrInits
        /\ (last'.op = "patch" /\ "audit" \in DOMAIN last'.body) \/ MutationInits ]_vars

\* a patch without an audit key that initialised the session it was applied to
C16_InitByPatchReached ==
    /\ last.op = "patch"
    /\ last.code = 200
    /\ "audit" \notin DOMAIN last.body
    /\ last.content.version = 2
    /\ Len(last.content.audit) = 2

\* C21: an appendRun or close request that carries a version different from
\* the stored version is answered with a version conflict and changes nothing.
C21_VersionHonouredByAll ==
    [][ ( /\ last'.op \in {"appendRun", "close"}
          /\ "version" \in DOMAIN last'.body
          /\ last'.body.version # KibaBefore(last'.sid).version )
        => ( /\ last'.code = 409
             /\ kiba_session_store' = kiba_session_store ) ]_vars

\* an appendRun that carried the stale version 1 was applied to a session at
\* version 2
C21_StaleAppendApplied ==
    /\ last.op = "appendRun"
    /\ last.code = 200
    /\ "version" \in DOMAIN last.body
    /\ last.body.version = 1
    /\ last.content.version = 3

\* the run field of the body is missing or is not a JSON object
NotAMapping(body) == "run" \notin DOMAIN body \/ body.run.type # "object"

\* C22: appendRun with a run that is not a mapping (a list, a string, null,
\* or no run field) is answered with a validation error and leaves the store
\* as it was.
C22_InvalidRunRejected ==
    [][ (last'.op = "appendRun" /\ NotAMapping(last'.body))
        => (last'.code = 400 /\ kiba_session_store' = kiba_session_store) ]_vars

\* C22 for the run values that are present and truthy
C22_TruthyNonMapping ==
    [][ ( /\ last'.op = "appendRun"
          /\ NotAMapping(last'.body)
          /\ "run" \in DOMAIN last'.body
          /\ Truthy(last'.body.run) )
        => (last'.code = 400 /\ kiba_session_store' = kiba_session_store) ]_vars

\* an appendRun whose run is null was answered 200 and appended the empty run
C22_NullRunAppended ==
    /\ last.op = "appendRun"
    /\ last.code = 200
    /\ last.body = [run |-> JsonNull]
    /\ kiba_session_store[last.sid].value.steps.vendorSearch.runs = <<EmptyDict>>

\* an appendRun whose run is a non-empty list was answered 400
C22_ListRejected ==
    /\ last.op = "appendRun"
    /\ last.code = 400
    /\ last.body = [run |-> JsonArray(<<Run1>>)]

\* the keys of the body of the patch just handled, without version
PatchedKeys == DOMAIN last'.body \ {"version"}

\* the audit entry the call just handled has appended
LastAudit(session) == session.audit[Len(session.audit)]

C27_StepsAlwaysComplete ==
    /\ \A sid \in DOMAIN kiba_session_store :
          {"vendorSearch", "evaluation", "selection"}
              \subseteq DOMAIN kiba_session_store[sid].value.steps
    /\ last.op \in {"appendRun", "close"} => last.code \in {200, 400, 404}

\* close has answered 500 on a record whose steps a patch had replaced
C27_CloseInternalError ==
    /\ last.op = "close"
    /\ last.code = 500
    /\ kiba_session_store[last.sid].value.steps = StepsSearchOnly

\* appendRun has answered 500 on a record without steps.vendorSearch
C27_AppendInternalError ==
    /\ last.op = "appendRun"
    /\ last.code = 500
    /\ kiba_session_store[last.sid].value.steps = StepsRequestOnly

\* some patch of the session carried the key audit: the entry of the latest
\* such patch names audit in its payload and later calls only append after it
AuditPatched(session) ==
    \E i \in 1..Len(session.audit) :
        /\ session.audit[i].event = "patch"
        /\ "audit" \in session.audit[i].payload

AuditEvents(session) == { session.audit[i].event : i \in 1..Len(session.audit) }

\* C28: after every call, a stored session none of whose patches carried the
\* key audit has version = length of audit; a call that is not answered 200
\* leaves the store as it was.
C28_VersionIsAuditLength ==
    [][ /\ \A sid \in DOMAIN kiba_session_store' :
              LET session == kiba_session_store'[sid].value
              IN  ~AuditPatched(session) => session.version = Len(session.audit)
        /\ last'.code # 200 => kiba_session_store' = kiba_session_store
      ]_vars

\* a session that went through patch, appendRun and close without an audit
\* patch, and whose last call was rejected
C28_Witness ==
    /\ last.op = "patch"
    /\ last.code = 409
    /\ last.sid \in DOMAIN kiba_session_store
    /\ LET session == kiba_session_store[last.sid].value
       IN  /\ ~AuditPatched(session)
           /\ {"session_init", "patch", "run_created", "closed"}
                  \subseteq AuditEvents(session)
           /\ session.version = 4
           /\ Len(session.audit) = 4

\* the stored session satisfies what close validates: the three sub-maps are
\* there, with at least one run, one shortlisted vendor and a selected vendor
CloseReady(session) ==
    /\ {"vendorSearch", "evaluation", "selection"} \subseteq DOMAIN session.steps
    /\ Len(session.steps.vendorSearch.runs) >= 1
    /\ Len(session.steps.evaluation.shortlistVendorIds) >= 1
    /\ session.steps.selection.selectedVendorId # None

\* close on the closed session: 200, still closed, the final snapshot taken
\* from the steps stored now, version + 1 and one more closed audit entry
ClosedAgain(session, stored) ==
    /\ last'.code = 200
    /\ last'.content = stored
    /\ stored.status = "closed"
    /\ stored.final.steps = session.steps
    /\ stored.final.selection = session.steps.selection
    /\ stored.final.activeRunId = session.steps.vendorSearch.activeRunId
    /\ stored.steps = session.steps
    /\ stored.version = session.version + 1
    /\ Len(stored.audit) = Len(session.audit) + 1
    /\ SubSeq(stored.audit, 1, Len(session.audit)) = session.audit
    /\ stored.audit[Len(stored.audit)].event = "closed"

\* C30: on a session whose stored status is closed, close succeeds again when
\* the three preconditions hold, a patch without a version conflict succeeds
\* and an appendRun with a mapping run (steps.vendorSearch present) succeeds.
C30_ClosedStillMutable ==
    [][ \A sid \in DOMAIN kiba_session_store :
          LET session == kiba_session_store[sid].value
              stored == kiba_session_store'[sid].value
          IN  (last'.sid = sid /\ session.status = "closed") =>
                /\ (last'.op = "close" /\ CloseReady(session))
                       => ClosedAgain(session, stored)
                /\ (last'.op = "patch" /\ ~VersionConflict(last'.body, session))
                       => (last'.code = 200 /\ stored.version = session.version + 1)
                /\ (last'.op = "appendRun" /\ RunOf(last'.body).type = "object"
                       /\ "vendorSearch" \in DOMAIN session.steps)
                       => (last'.code = 200 /\ stored.version = session.version + 1)
      ]_vars

\* a session closed by close has been closed by close once more
C30_Witness ==
    /\ last.op = "close"
    /\ last.code = 200
    /\ LET audit == kiba_session_store[last.sid].value.audit
       IN  /\ Len(audit) >= 2
           /\ audit[Len(audit)].event = "closed"
           /\ audit[Len(audit) - 1].event = "closed"

\* a patch has been applied to a session closed by close
C30_PatchOnClosedReached ==
    /\ last.op = "patch"
    /\ last.code = 200
    /\ LET audit == kiba_session_store[last.sid].value.audit
       IN  /\ Len(audit) >= 2
           /\ audit[Len(audit) - 1].event = "closed"

\* a run has been appended to a session closed by close
C30_AppendOnClosedReached ==
    /\ last.op = "appendRun"
    /\ last.code = 200
    /\ LET audit == kiba_session_store[last.sid].value.audit
       IN  /\ Len(audit) >= 2
           /\ audit[Len(audit) - 1].event = "closed"

-----------------------------------------------------------------------------
(* Properties of the KPA intake handlers, checked under SpecKpa.            *)

KpaSucceeded(ops) == last'.op \in ops /\ last'.code = 200

KpaAfter(sid) == kpa_session_store'[sid].value

\* the asked_questions an intake call on sid starts from
AskedBefore(sid) == IF KpaLive(sid) THEN KpaSession(sid).asked_questions ELSE {}

\* the members of seq that are not in set, in the order of seq
RECURSIVE NotIn(_, _)
NotIn(seq, set) ==
    IF seq = <<>> THEN <<>>
    ELSE (IF Head(seq) \in set THEN <<>> ELSE <<Head(seq)>>) \o NotIn(Tail(seq), set)

\* C6: an intake call on a session with asked_questions A whose collaborator
\* returns the candidates C returns the members of C not in A, in candidate
\* order, and stores asked_questions = A \cup (C \ A).
C6_IntakeFiltersAsked ==
    [][ KpaSucceeded({"intake"})
        => LET A == AskedBefore(last'.sid)
               C == last'.candidates
           IN  /\ last'.content.intake.missing_info_questions = NotIn(C, A)
               /\ KpaAfter(last'.sid).asked_questions = A \cup (Range(C) \ A)
               /\ KpaAfter(last'.sid).intake_result.missing_info_questions = NotIn(C, A) ]_vars

\* round 2 of the example: asked {Q1, Q2}, candidates <<Q1, Q3>>, returned <<Q3>>
C6_Witness ==
    /\ last.op = "intake"
    /\ last.code = 200
    /\ last.candidates = <<"Q1", "Q3">>
    /\ last.content.intake.missing_info_questions = <<"Q3">>
    /\ kpa_session_store[last.sid].value.asked_questions = {"Q1", "Q2", "Q3"}

\* C7: no question is returned by two different intake calls of one session
\* id, whenever the calls are made.  Under SpecKpa it fails once the record
\* has expired; under SpecAwait, where no time passes, it fails after a
\* patch_answers that was suspended across an intake call.
C7_NeverReasked ==
    [][ KpaSucceeded({"intake"})
        => Range(last'.content.intake.missing_info_questions) \cap everReturned = {} ]_vars

\* C7 on live records: an intake call that finds the session record live
\* (written no longer than the TTL ago) returns no question that an intake
\* call has returned since the record was created.  It holds under SpecKpa,
\* where each handler is one step, and fails under SpecAwait.
C7_NeverReaskedWhileLive ==
    [][ (KpaSucceeded({"intake"}) /\ KpaLive(last'.sid))
        => Range(last'.content.intake.missing_info_questions) \cap lifeReturned = {} ]_vars

\* a third intake round on a live record that had questions to filter out
C7_Witness ==
    /\ last.op = "intake"
    /\ last.code = 200
    /\ last.candidates = <<"Q1", "Q3">>
    /\ last.content.intake.missing_info_questions = <<>>
    /\ lifeReturned = {"Q1", "Q2", "Q3"}
    /\ everReturned = lifeReturned

C18_GetSessionPureRead ==
    [][ last'.op = "get_session"
        => IF KpaLive(last'.sid)
           THEN /\ last'.code = 200
                /\ kpa_session_store' = kpa_session_store
                /\ last'.content.version = VersionOf(KpaSession(last'.sid))
                /\ last'.content.answers = KpaSession(last'.sid).answers
                /\ (last.op = "get_session" /\ last.sid = last'.sid /\ last.code = 200)
                      => last' = last
           ELSE /\ last'.code = 404
                /\ last'.sid \notin DOMAIN kpa_session_store' ]_vars

\* a fetch of a session that was last written one tick ago and has been
\* regenerated once
C18_Witness ==
    /\ last.op = "get_session"
    /\ last.code = 200
    /\ last.content.version = 1
    /\ now - kpa_session_store[last.sid].ts = TickSeconds

\* the recommendation version of a stored session, 0 when it has none
RecVersion(session) == IF "version" \in DOMAIN session THEN session.version ELSE 0

\* C19: each successful regenerate and generate_recommendations stores the
\* recommendation version before the call (0 when missing) plus one and the
\* recommendations it returns, and leaves answers and asked_questions as
\* they were.
C19_RegenerateBumpsVersion ==
    [][ KpaSucceeded({"regenerate", "generate_recommendations"})
        => LET before == KpaSession(last'.sid)
               after == KpaAfter(last'.sid)
           IN  /\ KpaLive(last'.sid)
               /\ RecVersion(after) = RecVersion(before) + 1
               /\ last'.content.version = RecVersion(after)
               /\ after.recommendations = last'.content.recommendations
               /\ after.answers = before.answers
               /\ after.asked_questions = before.asked_questions ]_vars

\* a second regeneration of a session that holds answers and asked questions
C19_Witness ==
    /\ last.op \in {"regenerate", "generate_recommendations"}
    /\ last.code = 200
    /\ last.content.version = 2
    /\ kpa_session_store[last.sid].value.answers = [Q1 |-> "A1"]
    /\ kpa_session_store[last.sid].value.asked_questions = {"Q1", "Q2", "Q3"}

KpaMutations ==
    {"intake", "submit_followups", "patch_answers", "generate_summary", "regenerate",
     "generate_recommendations"}

\* the version of a live session does not go down in a step that keeps it
VersionKept(sid) ==
    (KpaLive(sid) /\ sid \in DOMAIN kpa_session_store')
    => RecVersion(KpaAfter(sid)) >= RecVersion(KpaSession(sid))

\* C20: every successful mutation of a live intake session (intake re-run,
\* submit_followups, patch_answers, generate_summary, regenerate,
\* generate_recommendations) increments its version, and the version of a
\* live session, which get_session reports, never decreases.
C20_VersionOnEveryMutation ==
    [][ \A sid \in KpaIds :
          /\ (KpaLive(sid) /\ KpaSucceeded(KpaMutations) /\ last'.sid = sid)
                => RecVersion(KpaAfter(sid)) = RecVersion(KpaSession(sid)) + 1
          /\ VersionKept(sid) ]_vars

\* the second half of C20 alone: the version of a live session never decreases
C20_VersionNeverDecreases == [][ \A sid \in KpaIds : VersionKept(sid) ]_vars

\* C29: the structured summary a successful generate_recommendations hands to
\* the recommendation engine holds the answers the session stores at the call.
C29_SummaryReflectsAnswers ==
    [][ (last'.op = "generate_recommendations" /\ last'.code = 200) =>
            last'.content.recommendations.generated_from.answers
                = KpaSession(last'.sid).answers
      ]_vars

\* recommendations were generated from a summary older than the stored answers
C29_StaleSummaryUsed ==
    /\ last.op = "generate_recommendations"
    /\ last.code = 200
    /\ LET session == KpaSession(last.sid)
       IN  /\ "structured_summary" \in DOMAIN session
           /\ session.structured_summary.answers = [Q1 |-> "A1"]
           /\ session.answers = [Q1 |-> "A2", Q2 |-> "A2"]
           /\ session.recommendations.generated_from = session.structured_summary

-----------------------------------------------------------------------------
(* Properties of the intake validation, checked under SpecIntake.           *)

\* the request breaks a validation rule: empty name after trimming, quantity
\* below 1, or a negative budget
BreaksRule(body) ==
    \/ Strip(body.product_name) = ""
    \/ body.quantity < 1
    \/ body.budget_usd < 0

\* C17: an intake request is rejected with a validation error and leaves the
\* store as it was whenever product_name is empty after trimming, quantity
\* is below 1 (0 included) or budget_usd is negative, and passes otherwise.
C17_IntakeValidation ==
    [][ last'.op = "intake"
        => IF BreaksRule(last'.body)
           THEN last'.code = 400 /\ kpa_session_store' = kpa_session_store
           ELSE last'.code = 200 ]_vars

\* C17 for the requests whose quantity is not 0
C17_NonZeroQuantity ==
    [][ (last'.op = "intake" /\ last'.body.quantity # 0)
        => IF BreaksRule(last'.body)
           THEN last'.code = 400 /\ kpa_session_store' = kpa_session_store
           ELSE last'.code = 200 ]_vars

\* a request with quantity 0 passed validation and was stored with quantity 1
C17_ZeroQuantityStored ==
    /\ last.op = "intake"
    /\ last.code = 200
    /\ last.body.quantity = 0
    /\ kpa_session_store[last.sid].value.quantity = 1

-----------------------------------------------------------------------------
(* Properties of the two stores, checked under SpecStore.  lastSet holds,   *)
(* per store and key, the payload and the time of the most recent set.      *)

\* the last call was a get on store name for a key that has been set
GotSetKey(name) ==
    /\ last'.op = "store.get"
    /\ last'.store = name
    /\ last'.key \in DOMAIN lastSet[name]

\* C14: in the store with the finite TTL T, get(k) returns the payload of the
\* last set(k) while no more than T has passed since that set, and returns
\* absent and drops the record once more than T has passed since it.
C14_FiniteTtlExpiry ==
    [][ GotSetKey("kpa")
        => LET written == lastSet.kpa[last'.key]
           IN  IF now - written.at <= KpaTtlSeconds
               THEN /\ last'.found
                    /\ last'.payload = written.payload
                    /\ last'.key \in DOMAIN kpa_session_store'
               ELSE /\ ~last'.found
                    /\ last'.key \notin DOMAIN kpa_session_store' ]_vars

\* a get finds a key absent whose last set, itself a later overwrite, is more
\* than the TTL back
C14_Witness ==
    /\ last.op = "store.get"
    /\ last.store = "kpa"
    /\ ~last.found
    /\ last.key \in DOMAIN lastSet.kpa
    /\ lastSet.kpa[last.key].at = HalfTtl
    /\ now = HalfTtl + KpaTtlSeconds + HalfTtl

\* a get exactly one TTL after the last set still returns its payload
C14_BoundaryReached ==
    /\ last.op = "store.get"
    /\ last.store = "kpa"
    /\ last.found
    /\ last.key \in DOMAIN lastSet.kpa
    /\ lastSet.kpa[last.key].at = HalfTtl
    /\ now = HalfTtl + KpaTtlSeconds

\* C15: in the store without a TTL every key that has been set stays present
\* and get returns the payload of its most recent set, whatever time has passed.
C15_NoTtlNeverEvicts ==
    /\ [][ GotSetKey("kiba")
           => /\ last'.found
              /\ last'.payload = lastSet.kiba[last'.key].payload ]_vars
    /\ [](\A key \in DOMAIN lastSet.kiba :
            /\ key \in DOMAIN kiba_session_store
            /\ kiba_session_store[key].value = lastSet.kiba[key].payload)

\* a get on the KIBA store two TTLs of the KPA store after the key was set
C15_Witness ==
    /\ last.op = "store.get"
    /\ last.store = "kiba"
    /\ last.found
    /\ last.payload = "b"
    /\ last.key \in DOMAIN lastSet.kiba
    /\ now - lastSet.kiba[last.key].at = 2 * KpaTtlSeconds

-----------------------------------------------------------------------------
(* Properties of interleaved patches, checked under SpecRace.               *)

\* caller has completed a patch with a success response
Patched(caller) ==
    /\ caller \in DOMAIN inflight
    /\ inflight[caller].phase = "done"
    /\ inflight[caller].code = 200

\* first and second have both sent the expected version v, both have read the
\* session at version v and both have been answered 200, second last
BothPassed(first, second, v) ==
    /\ first # second
    /\ Patched(first) /\ Patched(second)
    /\ last.op = "patch" /\ last.caller = second
    /\ "version" \in DOMAIN inflight[first].body /\ inflight[first].body.version = v
    /\ "version" \in DOMAIN inflight[second].body /\ inflight[second].body.version = v
    /\ inflight[first].session.version = v
    /\ inflight[second].session.version = v

\* C24: when two patches that carry the same expected version v have both
\* read the session before either wrote and both succeed, the stored version
\* is v + 1, and every key only the first writer patched holds the value the
\* second writer had read: the first writer's change is lost.
C24_LostUpdate ==
    \A first \in Callers, second \in Callers, v \in 1..MaxVersion :
        BothPassed(first, second, v)
        => LET stored == kiba_session_store[inflight[second].sid].value
               lost == DOMAIN inflight[first].body
                         \ (DOMAIN inflight[second].body \cup {"version"})
           IN  /\ stored.version = v + 1
               /\ \A k \in lost : stored[k] = inflight[second].session[k]

\* both callers sent version 1 and were answered 200; the stored record is
\* at version 2 and a's status change is absent from it
C24_Witness ==
    /\ BothPassed("a", "b", 1)
    /\ inflight["a"].body = [status |-> "closed", version |-> 1]
    /\ inflight["b"].body = [currentStep |-> "selection", version |-> 1]
    /\ kiba_session_store["k1"].value.version = 2
    /\ kiba_session_store["k1"].value.status = "open"
    /\ kiba_session_store["k1"].value.currentStep = "selection"

-----------------------------------------------------------------------------
(* Properties of the suspended patch_answers, checked under SpecAwait.      *)

\* no request on a session id is handled between the read and the write of
\* a handler that is working on that id
NoRequestInBetween ==
    \A caller \in DOMAIN inflight :
        last'.sid = inflight[caller].sid => last'.op = "patch_answers"

\* no step takes a question out of the asked_questions of a live session
AskedKept ==
    \A sid \in KpaIds :
        (KpaLive(sid) /\ sid \in DOMAIN kpa_session_store')
        => KpaSession(sid).asked_questions \subseteq KpaAfter(sid).asked_questions

\* C25: under the cooperative scheduler no request on the same session id
\* runs between a mutating handler's store read and its store write; in
\* particular no intake call runs between the read and the write of
\* patch_answers and has its asked_questions overwritten.
C25_NoYieldBetweenReadAndWrite ==
    [][ NoRequestInBetween /\ AskedKept ]_vars

\* the second half of C25 alone
C25_AskedNeverOverwritten == [][ AskedKept ]_vars

\* patch_answers has written back the session it read before an intake call:
\* questions that call returned are no longer in asked_questions
C25_AskedOverwritten ==
    /\ last.op = "patch_answers"
    /\ last.code = 200
    /\ lifeReturned = {"Q1", "Q2", "Q3"}
    /\ kpa_session_store[last.sid].value.asked_questions = {"Q1", "Q2"}

-----------------------------------------------------------------------------
(* Properties of the generator wrappers, checked under SpecCollaborator.    *)

\* the generator is unavailable or its call raises
ClientFails(client) == client.state \in {"none", "raises"}

\* C26: when the generator is unavailable or raises, run_intake returns a
\* result with status "questions" and a non-empty question list, and
\* generate_user_friendly_summary returns the structured summary itself; a
\* reply run_intake cannot use is answered with the same fallback.
C26_CollaboratorFallback ==
    /\ (last.op = "run_intake"
          /\ (ClientFails(last.client) \/ IntakeReplyRejected(last.client.content)))
       => ( /\ last.result.status = "questions"
            /\ Len(last.result.missing_info_questions) > 0
            /\ last.result.requirements_summary.product_name = last.product_name )
    /\ (last.op = "generate_user_friendly_summary" /\ ClientFails(last.client))
       => last.result = last.structured_summary

\* run_intake has returned the five fallback questions after the generator raised
C26_Witness ==
    /\ last.op = "run_intake"
    /\ last.client.state = "raises"
    /\ last.product_name = "desk"
    /\ Len(last.result.missing_info_questions) = 5
    /\ last.result.missing_info_questions[1][2] = "desk"

\* the summary wrapper has returned the structured summary for a missing client
C26_SummaryFallbackReached ==
    /\ last.op = "generate_user_friendly_summary"
    /\ last.client.state = "none"
    /\ last.result = last.structured_summary
    /\ last.structured_summary.answers = [Q1 |-> "A1"]

====
